---- MODULE Spec2Model ----
(***************************************************************************)
(* Model of autogpt/llm_utils.py: call_ai_function, the retrying           *)
(* chat-completion dispatcher create_chat_completion (plugin               *)
(* short-circuit, retry loop with exponential backoff, text extraction,    *)
(* plugin post-processing), get_message_string, get_ada_embedding and the  *)
(* retrying embedding call create_embedding_with_ada.                      *)
(*                                                                         *)
(* One behaviour of the model is one call of one of the functions.  The    *)
(* position inside the function is pc; the outcome of every backend        *)
(* round trip and of every plugin method call is an input chosen by the    *)
(* environment when the call is made.  The coloured console prints under   *)
(* CFG.debug_mode change no state the function reads and are left out.     *)
(***************************************************************************)
EXTENDS Integers, Sequences, FiniteSets, TLC

VARIABLES
    entry,          \* the function the caller invoked
    input,          \* the arguments the caller passed to it
    op,             \* the function executing: "call_ai_function", "chat",
                    \* "embed" or "get_ada_embedding"
    CFG,            \* the process-wide Config the functions read
    request,        \* parameters of create_chat_completion
    dispatches,     \* number of calls of create_chat_completion made
    pc,             \* position in the function body
    plugin,         \* index of the loop variable `plugin` (1-based)
    attempt,        \* loop variable `attempt`
    warned_user,    \* local warned_user
    response,       \* local response
    resp,           \* local resp
    outcome,        \* how the call ended: "running", "returned", ...
    result,         \* the value returned, None when nothing was returned
    events,         \* observable calls in order: plugins, backend, sleep, log
    calls,          \* the arguments handed to plugins and backends so far
    lastOutcome,    \* history: outcome of the latest backend round trip
    firstRateLimit, \* history: 1-based attempt first rate-limited, 0 if none
    backendUsed     \* history: backend that received the latest round trip

vars == <<entry, input, op, CFG, request, dispatches, pc, plugin, attempt,
          warned_user, response, resp, outcome, result, events, calls,
          lastOutcome, firstRateLimit, backendUsed>>

\* Largest number of registered plugins explored.
MaxPlugins == 2

\* Longest argument list given to call_ai_function.
MaxArgs == 2

\* Longest text given to the embedding functions.
MaxTextLen == 2

-----------------------------------------------------------------------------
\* Values.  A Python value is a record: None, a bool, a str, an exception
\* raised instead of a value, or the response envelope of the hosted service
\* whose choices[0].message["content"] is val.  fs lists the plugins whose
\* on_response has been applied to it, so on_response is an uninterpreted
\* function per plugin.

None == [kind |-> "None", val |-> "", fs |-> <<>>]

True == [kind |-> "bool", val |-> "True", fs |-> <<>>]

False == [kind |-> "bool", val |-> "False", fs |-> <<>>]

Raised == [kind |-> "raise", val |-> "", fs |-> <<>>]

Text(s) == [kind |-> "text", val |-> s, fs |-> <<>>]

Number(s) == [kind |-> "int", val |-> s, fs |-> <<>>]

Envelope(s) == [kind |-> "envelope", val |-> s, fs |-> <<>>]

\* Texts a backend may produce; the empty text is a text, not None.
ResponseTexts == {"", "answer"}

\* What a plugin's handle_chat_completion may produce.
HandlerResults == {None, Text(""), Text("handled")}

\* What a plugin's predicates may produce: an answer or an exception.
PredicateResults == {True, False, Raised}

\* CFG.plugins: the registered plugins, named by their position.
PluginLists == { [i \in 1..n |-> i] : n \in 0..MaxPlugins }

\* CFG.temperature, in tenths.
Temperatures == {0, 9}

Configs ==
    [use_azure : BOOLEAN, use_local_model : BOOLEAN, debug_mode : BOOLEAN,
     temperature : Temperatures, smart_llm_model : {Text("gpt-4")},
     plugins : PluginLists]

\* http_status of an APIError or Timeout; 0 stands for a Timeout that
\* carries no status (http_status is None).
HttpStatuses == {502, 500, 0}

\* An entry of events; r is the value a plugin method produced.
CallEvent(e, p, r) == [e |-> e, p |-> p, r |-> r]

Event(e, p) == CallEvent(e, p, None)

-----------------------------------------------------------------------------
\* Strings that the code builds are sequences of characters (the fixed
\* parts of a format string are one element each).

RECURSIVE Join(_, _)
\* `sep.join(parts)`
Join(sep, parts) ==
    IF parts = <<>> THEN <<>>
    ELSE IF Len(parts) = 1 THEN parts[1]
    ELSE parts[1] \o sep \o Join(sep, Tail(parts))

\* Arguments of an AI function: None or a one-digit int.
NoneArg == [kind |-> "None", n |-> 0]

IntArg(n) == [kind |-> "int", n |-> n]

ArgValues == {NoneArg, IntArg(2)}

ArgLists == UNION { [1..n -> ArgValues] : n \in 0..MaxArgs }

Digits == <<"0", "1", "2", "3", "4", "5", "6", "7", "8", "9">>

\* `str(arg)`
Str(a) == IF a.kind = "None" THEN <<"N", "o", "n", "e">> ELSE <<Digits[a.n + 1]>>

\* `str(arg) if arg is not None else "None"`
ArgText(a) == IF a # NoneArg THEN Str(a) ELSE <<"N", "o", "n", "e">>

\* Mutant: the separator lacks the space.
ArgSeparator_comma == <<",">>

\* `", "`
ArgSeparator == <<",", " ">>

\* `", ".join(args)` over `[str(arg) if ... for arg in args]`
JoinArgs(args) == Join(ArgSeparator, [i \in 1..Len(args) |-> ArgText(args[i])])

\* The system turn's f-string; [fence] stands for the three backquotes and
\* [q] for the single backquote of the Python literal.
SystemContent(function, description) ==
    <<"You are now the following python function: [fence]# ">> \o description
    \o <<"\n">> \o function
    \o <<"[fence]\n\nOnly respond with your [q]return[q] value.">>

\* `messages` of call_ai_function.
FunctionMessages(function, args, description) ==
    << [role |-> "system", content |-> SystemContent(function, description)],
       [role |-> "user", content |-> JoinArgs(args)] >>

\* Mutant: the default temperature is passed on.
FunctionTemperature_default == CFG.temperature

\* `temperature=0` of call_ai_function
FunctionTemperature == 0

\* `if model is None: model = CFG.smart_llm_model`
FunctionModel(cfg, model) == IF model = None THEN cfg.smart_llm_model ELSE model

\* get_message_string: "<|start|>{0}\n{1}<|end|>\n" per message, joined.
get_message_string(messages) ==
    Join(<<>>, [i \in 1..Len(messages) |->
                  <<"<|start|>", messages[i].role, "\n">>
                  \o messages[i].content \o <<"<|end|>", "\n">>])

\* `text.replace("\n", " ")`
ReplaceNewlines(text) ==
    [i \in 1..Len(text) |-> IF text[i] = "\n" THEN " " ELSE text[i]]

EmbeddingTexts == UNION { [1..n -> {"a", "\n"}] : n \in 0..MaxTextLen }

Request(messages, model, temperature, max_tokens) ==
    [messages |-> messages, model |-> model, temperature |-> temperature,
     max_tokens |-> max_tokens]

\* The request before create_chat_completion is called.
NoRequest == Request(<<>>, None, 0, None)

\* The conversation of a direct call of create_chat_completion.
Conversation ==
    << [role |-> "system", content |-> <<"c", "a", "l", "c">>],
       [role |-> "user", content |-> <<"2", "+", "2">>] >>

\* Direct calls: `temperature` is given or defaults to CFG.temperature.
ChatRequests(cfg) ==
    { Request(Conversation, Text("gpt-3.5-turbo"), t, Number("100")) :
        t \in Temperatures \cup {cfg.temperature} }

\* Calls of call_ai_function.
FunctionInputs ==
    [function : {<<"f", "(", ")">>}, args : ArgLists,
     description : {<<"d">>}, model : {None, Text("x")}]
-----------------------------------------------------------------------------
\* Pieces of the code, one operator each.

\* Mutant: one attempt too many.
num_retries_off_by_one == 11

\* `num_retries = 10` of create_chat_completion
num_retries == 10

\* `num_retries = 10` of create_embedding_with_ada
embedding_num_retries == 10

\* Mutant: the exponent lacks one.
Backoff_short(k) == 2 ^ (k + 1)

\* `backoff = 2 ** (attempt + 2)`
Backoff(k) == 2 ^ (k + 2)

\* Mutant: the test is inverted.
ShortCircuits_inverted(message) == message = None

\* Mutant: truthiness instead of `is not None`.
ShortCircuits_truthy(message) == message # None /\ message.val # ""

\* `if message is not None: return message`
ShortCircuits(message) == message # None

\* `if CFG.use_azure: ... elif CFG.use_local_model: ... else: ...`
SelectBackend(cfg) ==
    IF cfg.use_azure THEN "managed"
    ELSE IF cfg.use_local_model THEN "local"
    ELSE "hosted"

\* What a successful round trip assigns to `response`: tokenizer.decode
\* gives a str, api_manager.create_chat_completion gives an envelope.
BackendResponse(backend, t) ==
    IF backend = "local" THEN Text(t) ELSE Envelope(t)

\* The keyword arguments of can_handle_chat_completion and of
\* handle_chat_completion (lines 85-96).
PluginArgs(req) ==
    [messages |-> req.messages, model |-> req.model,
     temperature |-> req.temperature, max_tokens |-> req.max_tokens]

\* `CFG.get_azure_deployment_id_for_model(model)`, uninterpreted.
DeploymentId(model) == [kind |-> "deployment_id", val |-> model.val, fs |-> <<>>]

\* Mutant: the hosted call is made with the default temperature.
BackendArgs_default_temperature(backend, cfg, req) ==
    IF backend = "managed"
    THEN [deployment_id |-> DeploymentId(req.model), model |-> req.model,
          messages |-> req.messages, temperature |-> req.temperature,
          max_tokens |-> req.max_tokens]
    ELSE IF backend = "local"
    THEN [model |-> req.model, input_text |-> get_message_string(req.messages),
          max_new_tokens |-> req.max_tokens]
    ELSE [model |-> req.model, messages |-> req.messages,
          temperature |-> cfg.temperature, max_tokens |-> req.max_tokens]

\* What the chosen backend is given (lines 103-128): the managed and the
\* hosted service get the request, the local model gets the model name,
\* the rendered conversation and max_tokens as max_new_tokens.
BackendArgs(backend, cfg, req) ==
    IF backend = "managed"
    THEN [deployment_id |-> DeploymentId(req.model), model |-> req.model,
          messages |-> req.messages, temperature |-> req.temperature,
          max_tokens |-> req.max_tokens]
    ELSE IF backend = "local"
    THEN [model |-> req.model, input_text |-> get_message_string(req.messages),
          max_new_tokens |-> req.max_tokens]
    ELSE [model |-> req.model, messages |-> req.messages,
          temperature |-> req.temperature, max_tokens |-> req.max_tokens]

Call(to, args) == [to |-> to, args |-> args]

\* Mutant: warned_user is never consulted.
ShouldWarn_always(warned) == TRUE

\* `if not warned_user:`
ShouldWarn(warned) == ~warned

\* Mutant: the status test is missing.
ShouldReraise_last_only(status, k) == k = num_retries - 1

\* Mutant: the last-attempt test is missing.
ShouldReraise_status_only(status, k) == status # 502

\* `if e.http_status != 502: raise` / `if attempt == num_retries - 1: raise`
ShouldReraise(status, k) == status # 502 \/ k = num_retries - 1

\* The same two tests in create_embedding_with_ada.
EmbedShouldReraise(status, k) == status # 502 \/ k = embedding_num_retries - 1

\* `response.choices[0].message["content"]`
FirstChoiceContent(r) == Text(r.val)

\* `if CFG.use_local_model: resp = response else: resp = response.choices...`
ExtractText(cfg, r) ==
    IF cfg.use_local_model THEN r ELSE FirstChoiceContent(r)

\* Mutant: the `not` is missing.
SkipsOnResponse_inverted(can) == can = True

\* `if not plugin.can_handle_on_response(): continue`
SkipsOnResponse(can) == can # True

\* `plugin.on_response(resp)` of the plugin registered at position i
on_response(i, v) == [v EXCEPT !.fs = Append(@, i)]

\* Mutant: the two branches are swapped.
ExhaustedOutcome_swapped(cfg) == IF cfg.debug_mode THEN "quit" ELSE "raised_runtime"

\* `if CFG.debug_mode: raise RuntimeError(...) else: quit(1)`
ExhaustedOutcome(cfg) == IF cfg.debug_mode THEN "raised_runtime" ELSE "quit"

\* call_ai_function is explored without registered plugins; what the
\* dispatch does with plugins is explored by the direct calls.
FunctionConfigs == { c \in Configs : c.plugins = <<>> }

\* The embedding functions read CFG.debug_mode only; the rest is fixed.
EmbeddingConfigs ==
    { c \in Configs : /\ c.plugins = <<>> /\ ~c.use_azure /\ ~c.use_local_model
                      /\ c.temperature = 0 }

\* `text_list=[text], model="text-embedding-ada-002"`
EmbeddingArgs(text) ==
    [text_list |-> <<text>>, model |-> Text("text-embedding-ada-002")]

-----------------------------------------------------------------------------
\* The locals of a function that has just been entered.
Entered ==
    /\ plugin = 1
    /\ attempt = 0
    /\ warned_user = FALSE
    /\ response = None
    /\ resp = None
    /\ outcome = "running"
    /\ result = None
    /\ events = <<>>
    /\ calls = {}
    /\ lastOutcome = "none"
    /\ firstRateLimit = 0
    /\ backendUsed = "none"

\* A caller invokes create_chat_completion.
InitChat ==
    /\ entry = "create_chat_completion" /\ op = "chat"
    /\ CFG \in Configs
    /\ input \in ChatRequests(CFG)
    /\ request = input
    /\ dispatches = 1
    /\ pc = "plugins"

\* A caller invokes call_ai_function.
InitFunction ==
    /\ entry = "call_ai_function" /\ op = "call_ai_function"
    /\ CFG \in FunctionConfigs
    /\ input \in FunctionInputs
    /\ request = NoRequest
    /\ dispatches = 0
    /\ pc = "call_ai_function"

\* A caller invokes create_embedding_with_ada or get_ada_embedding.
InitEmbedding ==
    /\ \/ entry = "create_embedding_with_ada" /\ op = "embed" /\ pc = "retry"
       \/ /\ entry = "get_ada_embedding" /\ op = "get_ada_embedding"
          /\ pc = "get_ada_embedding"
    /\ CFG \in EmbeddingConfigs
    /\ input \in [text : EmbeddingTexts]
    /\ request = NoRequest
    /\ dispatches = 0

Init == Entered /\ (InitChat \/ InitFunction \/ InitEmbedding)

\* call_ai_function (lines 41-56): builds the two turns and calls
\* create_chat_completion(model=model, messages=messages, temperature=0).
CallAiFunction ==
    /\ op = "call_ai_function" /\ pc = "call_ai_function"
    /\ request' = Request(FunctionMessages(input.function, input.args,
                                           input.description),
                          FunctionModel(CFG, input.model),
                          FunctionTemperature, None)
    /\ dispatches' = dispatches + 1
    /\ op' = "chat"
    /\ pc' = "plugins"
    /\ UNCHANGED <<entry, input, CFG, plugin, attempt, warned_user, response,
                   resp, outcome, result, events, calls, lastOutcome,
                   firstRateLimit, backendUsed>>

\* One iteration of `for plugin in CFG.plugins:` (lines 84-98).  The
\* plugin's predicate answers or raises; when it answers true its handler
\* produces a message or raises.  An exception leaves the function.
PluginStep ==
    /\ op = "chat" /\ pc = "plugins" /\ plugin <= Len(CFG.plugins)
    /\ \E can \in PredicateResults, message \in HandlerResults \cup {Raised} :
          LET asked == Append(events,
                         CallEvent("can_handle_chat_completion", plugin, can))
              handled == Append(asked,
                         CallEvent("handle_chat_completion", plugin, message))
              c1 == Call("can_handle_chat_completion", PluginArgs(request))
              c2 == Call("handle_chat_completion", PluginArgs(request))
          IN  \/ /\ can = Raised /\ message = None
                 /\ events' = asked
                 /\ calls' = calls \cup {c1}
                 /\ pc' = "done"
                 /\ outcome' = "raised_plugin"
                 /\ UNCHANGED <<plugin, result>>
              \/ /\ can = False /\ message = None
                 /\ events' = asked
                 /\ calls' = calls \cup {c1}
                 /\ plugin' = plugin + 1
                 /\ UNCHANGED <<pc, outcome, result>>
              \/ /\ can = True /\ message = Raised
                 /\ events' = handled
                 /\ calls' = calls \cup {c1, c2}
                 /\ pc' = "done"
                 /\ outcome' = "raised_plugin"
                 /\ UNCHANGED <<plugin, result>>
              \/ /\ can = True /\ message # Raised
                 /\ events' = handled
                 /\ calls' = calls \cup {c1, c2}
                 /\ IF ShortCircuits(message)
                    THEN /\ pc' = "done"
                         /\ outcome' = "returned"
                         /\ result' = message
                         /\ UNCHANGED plugin
                    ELSE /\ plugin' = plugin + 1
                         /\ UNCHANGED <<pc, outcome, result>>
    /\ UNCHANGED <<entry, input, op, CFG, request, dispatches, attempt,
                   warned_user, response, resp, lastOutcome, firstRateLimit,
                   backendUsed>>

\* The plugin loop ends without a return; `response = None` (line 99).
StartRetries ==
    /\ op = "chat" /\ pc = "plugins" /\ plugin > Len(CFG.plugins)
    /\ pc' = "retry"
    /\ response' = None
    /\ UNCHANGED <<entry, input, op, CFG, request, dispatches, plugin, attempt,
                   warned_user, resp, outcome, result, events, calls,
                   lastOutcome, firstRateLimit, backendUsed>>

\* Mutant: no sleep after the last attempt.
SleepAndAdvance_not_after_last(ev, n) ==
    /\ events' = IF attempt + 1 < n
                 THEN Append(ev, Event("sleep", Backoff(attempt)))
                 ELSE ev
    /\ attempt' = attempt + 1
    /\ pc' = IF attempt + 1 < n THEN "retry" ELSE "after_loop"

\* What the end of a loop iteration does after a swallowed exception:
\* time.sleep(backoff), then the next attempt or the end of the range.
SleepAndAdvance(ev, n) ==
    /\ events' = Append(ev, Event("sleep", Backoff(attempt)))
    /\ attempt' = attempt + 1
    /\ pc' = IF attempt + 1 < n THEN "retry" ELSE "after_loop"

\* The round trip of one attempt: the backend chosen by the flags is given
\* its arguments.
BackendCalled ==
    /\ calls' = calls \cup {Call(SelectBackend(CFG),
                                 BackendArgs(SelectBackend(CFG), CFG, request))}
    /\ backendUsed' = SelectBackend(CFG)

\* An attempt whose backend call succeeds: `response = ...; break`.
AttemptSuccess ==
    /\ op = "chat" /\ pc = "retry" /\ attempt < num_retries
    /\ \E t \in ResponseTexts :
          response' = BackendResponse(SelectBackend(CFG), t)
    /\ events' = Append(events, Event("backend", attempt))
    /\ lastOutcome' = "success"
    /\ BackendCalled
    /\ pc' = "after_loop"
    /\ UNCHANGED <<entry, input, op, CFG, request, dispatches, plugin, attempt,
                   warned_user, resp, outcome, result, firstRateLimit>>

\* An attempt whose backend call raises RateLimitError (lines 130-140, 151).
AttemptRateLimit ==
    /\ op = "chat" /\ pc = "retry" /\ attempt < num_retries
    /\ LET called == Append(events, Event("backend", attempt))
           logged == IF ShouldWarn(warned_user)
                     THEN Append(called, Event("double_check_paid", 0))
                     ELSE called
       IN  SleepAndAdvance(logged, num_retries)
    /\ warned_user' = TRUE
    /\ lastOutcome' = "rate_limit"
    /\ firstRateLimit' = IF firstRateLimit = 0 THEN attempt + 1 ELSE firstRateLimit
    /\ BackendCalled
    /\ UNCHANGED <<entry, input, op, CFG, request, dispatches, plugin, response,
                   resp, outcome, result>>

\* An attempt whose backend call raises APIError or Timeout (lines 141-151).
AttemptAPIError ==
    /\ op = "chat" /\ pc = "retry" /\ attempt < num_retries
    /\ \E status \in HttpStatuses :
          /\ lastOutcome' = IF status = 502 THEN "502" ELSE "other"
          /\ IF ShouldReraise(status, attempt)
             THEN /\ events' = Append(events, Event("backend", attempt))
                  /\ pc' = "done"
                  /\ outcome' = "raised_backend"
                  /\ UNCHANGED attempt
             ELSE /\ SleepAndAdvance(Append(events, Event("backend", attempt)),
                                     num_retries)
                  /\ UNCHANGED outcome
    /\ BackendCalled
    /\ UNCHANGED <<entry, input, op, CFG, request, dispatches, plugin,
                   warned_user, response, resp, result, firstRateLimit>>

\* `if response is None:` taken (lines 152-163).
Exhausted ==
    /\ op = "chat" /\ pc = "after_loop" /\ response = None
    /\ events' = events \o <<Event("typewriter_log_failed", 0),
                             Event("double_check", 0)>>
    /\ outcome' = ExhaustedOutcome(CFG)
    /\ pc' = "done"
    /\ UNCHANGED <<entry, input, op, CFG, request, dispatches, plugin, attempt,
                   warned_user, response, resp, result, calls, lastOutcome,
                   firstRateLimit, backendUsed>>

\* `if response is None:` not taken; the text is extracted (lines 164-167).
Extract ==
    /\ op = "chat" /\ pc = "after_loop" /\ response # None
    /\ resp' = ExtractText(CFG, response)
    /\ plugin' = 1
    /\ pc' = "on_response"
    /\ UNCHANGED <<entry, input, op, CFG, request, dispatches, attempt,
                   warned_user, response, outcome, result, events, calls,
                   lastOutcome, firstRateLimit, backendUsed>>

\* One iteration of the second `for plugin in CFG.plugins:` (lines 168-171).
\* can_handle_on_response answers or raises; on_response transforms the
\* text or raises.
OnResponseStep ==
    /\ op = "chat" /\ pc = "on_response" /\ plugin <= Len(CFG.plugins)
    /\ \E can \in PredicateResults, transformed \in {on_response(plugin, resp), Raised} :
          LET asked == Append(events,
                         CallEvent("can_handle_on_response", plugin, can))
          IN  \/ /\ can = Raised /\ transformed = Raised
                 /\ events' = asked
                 /\ pc' = "done"
                 /\ outcome' = "raised_plugin"
                 /\ UNCHANGED <<plugin, resp>>
              \/ /\ can # Raised /\ SkipsOnResponse(can) /\ transformed = Raised
                 /\ events' = asked
                 /\ plugin' = plugin + 1
                 /\ UNCHANGED <<pc, outcome, resp>>
              \/ /\ can # Raised /\ ~SkipsOnResponse(can)
                 /\ events' = Append(asked,
                                CallEvent("on_response", plugin, transformed))
                 /\ IF transformed = Raised
                    THEN /\ pc' = "done"
                         /\ outcome' = "raised_plugin"
                         /\ UNCHANGED <<plugin, resp>>
                    ELSE /\ resp' = transformed
                         /\ plugin' = plugin + 1
                         /\ UNCHANGED <<pc, outcome>>
    /\ UNCHANGED <<entry, input, op, CFG, request, dispatches, attempt,
                   warned_user, response, result, calls, lastOutcome,
                   firstRateLimit, backendUsed>>

\* `return resp` (line 172).
ReturnResp ==
    /\ op = "chat" /\ pc = "on_response" /\ plugin > Len(CFG.plugins)
    /\ result' = resp
    /\ outcome' = "returned"
    /\ pc' = "done"
    /\ UNCHANGED <<entry, input, op, CFG, request, dispatches, plugin, attempt,
                   warned_user, response, resp, events, calls, lastOutcome,
                   firstRateLimit, backendUsed>>

-----------------------------------------------------------------------------
\* get_ada_embedding (lines 179-183): replaces the newlines and makes one
\* call; whatever the call raises reaches the caller.
GetAdaEmbedding ==
    /\ op = "get_ada_embedding" /\ pc = "get_ada_embedding"
    /\ events' = Append(events, Event("backend", 0))
    /\ calls' = calls \cup {Call("embedding_create",
                                 EmbeddingArgs(ReplaceNewlines(input.text)))}
    /\ backendUsed' = "embedding"
    /\ \E o \in {"success", "rate_limit", "502", "other"} :
          /\ lastOutcome' = o
          /\ result' = IF o = "success" THEN Text("vector") ELSE None
          /\ outcome' = IF o = "success" THEN "returned" ELSE "raised_backend"
    /\ pc' = "done"
    /\ UNCHANGED <<entry, input, op, CFG, request, dispatches, plugin, attempt,
                   warned_user, response, resp, firstRateLimit>>

\* create_embedding_with_ada (lines 186-207).

\* The round trip of one attempt: the text is sent as it was given.
EmbeddingCalled ==
    /\ calls' = calls \cup {Call("embedding_create", EmbeddingArgs(input.text))}
    /\ backendUsed' = "embedding"

\* `return api_manager.embedding_create(...)` succeeds.
EmbedSuccess ==
    /\ op = "embed" /\ pc = "retry" /\ attempt < embedding_num_retries
    /\ events' = Append(events, Event("backend", attempt))
    /\ lastOutcome' = "success"
    /\ EmbeddingCalled
    /\ result' = Text("vector")
    /\ outcome' = "returned"
    /\ pc' = "done"
    /\ UNCHANGED <<entry, input, op, CFG, request, dispatches, plugin, attempt,
                   warned_user, response, resp, firstRateLimit>>

\* embedding_create raises RateLimitError: `pass`, then the sleep.
EmbedRateLimit ==
    /\ op = "embed" /\ pc = "retry" /\ attempt < embedding_num_retries
    /\ SleepAndAdvance(Append(events, Event("backend", attempt)),
                       embedding_num_retries)
    /\ lastOutcome' = "rate_limit"
    /\ firstRateLimit' = IF firstRateLimit = 0 THEN attempt + 1 ELSE firstRateLimit
    /\ EmbeddingCalled
    /\ UNCHANGED <<entry, input, op, CFG, request, dispatches, plugin,
                   warned_user, response, resp, outcome, result>>

\* embedding_create raises APIError or Timeout.
EmbedAPIError ==
    /\ op = "embed" /\ pc = "retry" /\ attempt < embedding_num_retries
    /\ \E status \in HttpStatuses :
          /\ lastOutcome' = IF status = 502 THEN "502" ELSE "other"
          /\ IF EmbedShouldReraise(status, attempt)
             THEN /\ events' = Append(events, Event("backend", attempt))
                  /\ pc' = "done"
                  /\ outcome' = "raised_backend"
                  /\ UNCHANGED attempt
             ELSE /\ SleepAndAdvance(Append(events, Event("backend", attempt)),
                                     embedding_num_retries)
                  /\ UNCHANGED outcome
    /\ EmbeddingCalled
    /\ UNCHANGED <<entry, input, op, CFG, request, dispatches, plugin,
                   warned_user, response, resp, result, firstRateLimit>>

\* The range is used up: the function body ends, Python returns None.
EmbedFallThrough ==
    /\ op = "embed" /\ pc = "after_loop"
    /\ result' = None
    /\ outcome' = "returned"
    /\ pc' = "done"
    /\ UNCHANGED <<entry, input, op, CFG, request, dispatches, plugin, attempt,
                   warned_user, response, resp, events, calls, lastOutcome,
                   firstRateLimit, backendUsed>>

Next ==
    \/ CallAiFunction
    \/ PluginStep
    \/ StartRetries
    \/ AttemptSuccess
    \/ AttemptRateLimit
    \/ AttemptAPIError
    \/ Exhausted
    \/ Extract
    \/ OnResponseStep
    \/ ReturnResp
    \/ GetAdaEmbedding
    \/ EmbedSuccess
    \/ EmbedRateLimit
    \/ EmbedAPIError
    \/ EmbedFallThrough

Spec == Init /\ [][Next]_vars

\* Every call made by the functions returns or raises, so a function that
\* can take a step takes it.
FairSpec == Spec /\ WF_vars(Next)
-----------------------------------------------------------------------------
\* Reading the record of a call.

EventsOf(e) == { j \in 1..Len(events) : events[j].e = e }

BackendCalls == Cardinality(EventsOf("backend"))

SleepDelays ==
    LET IsSleep(x) == x.e = "sleep"
        s == SelectSeq(events, IsSleep)
    IN  [n \in 1..Len(s) |-> s[n].p]

FatalLogged == EventsOf("typewriter_log_failed") # {}

\* C1: one call of create_chat_completion, and one call of
\* create_embedding_with_ada, invokes the backend at most 10 times whatever
\* the outcomes of the round trips are.
C1_AtMostTenBackendCalls == BackendCalls <= 10

C1_Witness ==
    op = "chat" /\ pc = "done" /\ BackendCalls = 10 /\ lastOutcome = "rate_limit"

\* C2: a sleep happens only right after a backend round trip that failed
\* with a rate limit or a 502 (so never before the first attempt), and the
\* n-th sleep of a dispatch (n = 0, 1, 2, ...) lasts 2^(n+2): 4, 8, 16, ...
C2_BackoffSchedule ==
    op = "chat" =>
        /\ \A n \in 1..Len(SleepDelays) : SleepDelays[n] = 2 ^ (n + 1)
        /\ \A j \in EventsOf("sleep") :
              /\ j > 1
              /\ \/ events[j - 1].e = "backend"
                 \/ /\ j > 2
                    /\ events[j - 1].e = "double_check_paid"
                    /\ events[j - 2].e = "backend"
              /\ j = Len(events) => lastOutcome \in {"rate_limit", "502"}

C2_Witness ==
    /\ op = "chat" /\ pc = "done" /\ outcome = "returned"
    /\ SleepDelays = <<4, 8, 16>>
    /\ CFG.plugins # <<>>

\* C3 as claimed: whenever the 10 attempts are used up without a successful
\* response, whatever failures used them, the fatal error is logged and the
\* dispatch raises the unrecoverable error (debug mode) or exits the process
\* (normal mode), returning nothing.
C3_Original ==
    (op = "chat" /\ pc = "done" /\ BackendCalls = 10 /\ lastOutcome # "success") =>
        /\ FatalLogged
        /\ outcome = IF CFG.debug_mode THEN "raised_runtime" ELSE "quit"
        /\ result = None

\* C3 amended: when the 10 attempts are used up without a successful
\* response and the 10th was rate-limited, the fatal error is logged last
\* and the dispatch raises the unrecoverable error (debug mode) or exits
\* the process (normal mode); when the 10th failed with an API error, that
\* error is raised and nothing fatal is logged; no value is returned.
C3_ExhaustedIsFatalOrPropagates ==
    (op = "chat" /\ pc = "done" /\ BackendCalls = 10 /\ lastOutcome # "success") =>
        /\ result = None
        /\ outcome # "returned"
        /\ lastOutcome = "rate_limit" =>
              /\ Len(events) >= 3
              /\ events[Len(events) - 2].e = "sleep"
              /\ events[Len(events) - 1].e = "typewriter_log_failed"
              /\ events[Len(events)].e = "double_check"
              /\ Cardinality(EventsOf("typewriter_log_failed")) = 1
              /\ outcome = IF CFG.debug_mode THEN "raised_runtime" ELSE "quit"
        /\ lastOutcome \in {"502", "other"} =>
              /\ ~FatalLogged
              /\ outcome = "raised_backend"

C3_Witness ==
    /\ op = "chat" /\ pc = "done" /\ BackendCalls = 10
    /\ lastOutcome = "rate_limit" /\ firstRateLimit = 3
    /\ outcome = "quit" /\ FatalLogged

\* C4: a backend failure whose status is not 502 (a Timeout without status
\* included) ends the dispatch at once with that error raised: the failed
\* round trip is the last event, no sleep and no further attempt follow.
C4_OtherStatusPropagates ==
    (op = "chat" /\ lastOutcome = "other") =>
        /\ pc = "done"
        /\ outcome = "raised_backend"
        /\ result = None
        /\ events[Len(events)].e = "backend"
        /\ BackendCalls = attempt + 1
        /\ ~FatalLogged

C4_Witness ==
    op = "chat" /\ lastOutcome = "other" /\ attempt = 2 /\ outcome = "raised_backend"

\* C5: a 502 on the 10th attempt is raised to the caller; the dispatch does
\* not sleep, log a fatal error or return a value after it.
C5_LastGatewayFailurePropagates ==
    (op = "chat" /\ lastOutcome = "502" /\ BackendCalls = 10) =>
        /\ pc = "done"
        /\ outcome = "raised_backend"
        /\ result = None
        /\ events[Len(events)].e = "backend"

C5_Witness ==
    /\ op = "chat" /\ lastOutcome = "502" /\ BackendCalls = 10
    /\ outcome = "raised_backend" /\ Len(SleepDelays) = 9

\* C6: the warning about the paid account is logged at most once in a
\* dispatch: exactly once when some attempt was rate-limited, right after
\* the first rate-limited round trip, and never otherwise.
C6_WarnsOnceOnFirstRateLimit ==
    op = "chat" =>
        /\ Cardinality(EventsOf("double_check_paid")) <= 1
        /\ (EventsOf("double_check_paid") # {}) <=> (firstRateLimit > 0)
        /\ \A j \in EventsOf("double_check_paid") :
              /\ j > 1
              /\ events[j - 1] = Event("backend", firstRateLimit - 1)

C6_Witness ==
    /\ op = "chat" /\ pc = "done" /\ BackendCalls = 10
    /\ firstRateLimit = 2 /\ lastOutcome = "rate_limit"
    /\ Cardinality(EventsOf("double_check_paid")) = 1

\* A handler call recorded in events that produced a non-empty text.
HandledWithText(j) ==
    /\ events[j].e = "handle_chat_completion"
    /\ events[j].r.kind = "text"
    /\ events[j].r.val # ""

\* C7: once a plugin's can_handle_chat_completion was true and its
\* handle_chat_completion produced a non-empty text, the dispatch has
\* returned that text, and no backend call and no sleep has been made.
C7_HandledTextShortCircuits ==
    \A j \in 1..Len(events) :
        HandledWithText(j) =>
            /\ pc = "done"
            /\ outcome = "returned"
            /\ result = events[j].r
            /\ j > 1
            /\ events[j - 1] = CallEvent("can_handle_chat_completion", events[j].p, True)
            /\ j = Len(events)
            /\ BackendCalls = 0
            /\ SleepDelays = <<>>

C7_Witness ==
    /\ op = "chat" /\ pc = "done" /\ Len(events) = 4
    /\ HandledWithText(4) /\ events[4].p = 2
    /\ result = Text("handled")

\* The k-th can_handle_chat_completion call is made on the k-th plugin.
ConsultedInRegistrationOrder ==
    LET IsCanHandle(x) == x.e = "can_handle_chat_completion"
        s == SelectSeq(events, IsCanHandle)
    IN  \A k \in 1..Len(s) : s[k].p = k

\* Nothing is consulted after event j: no later predicate, no backend call.
NothingConsultedAfter(j) ==
    \A j2 \in (j + 1)..Len(events) :
        events[j2].e \notin {"can_handle_chat_completion", "backend"}

\* C8 as claimed: plugins are consulted in registration order, and after the
\* first plugin whose can_handle_chat_completion is true no later predicate
\* is consulted and no backend attempt is made.
C8_Original ==
    /\ ConsultedInRegistrationOrder
    /\ \A j \in EventsOf("can_handle_chat_completion") :
          events[j].r = True => NothingConsultedAfter(j)

\* C8 amended: plugins are consulted in registration order, and after the
\* first plugin whose can_handle_chat_completion is true and whose handler
\* returns a message other than None, no later predicate is consulted and
\* no backend attempt is made; a plugin that opts in but whose handler
\* returns None does not stop the dispatch.
C8_FirstHandledShortCircuits ==
    /\ ConsultedInRegistrationOrder
    /\ \A j \in EventsOf("can_handle_chat_completion") :
          (/\ events[j].r = True
           /\ j < Len(events)
           /\ events[j + 1].r \notin {None, Raised}) =>
              /\ events[j + 1].e = "handle_chat_completion"
              /\ NothingConsultedAfter(j)
              /\ pc = "done"
              /\ outcome = "returned"
              /\ result = events[j + 1].r

C8_Witness ==
    /\ op = "chat" /\ pc = "done" /\ outcome = "returned"
    /\ Len(CFG.plugins) = 2 /\ plugin = 1
    /\ events = <<CallEvent("can_handle_chat_completion", 1, True),
                  CallEvent("handle_chat_completion", 1, Text(""))>>
    /\ result = Text("") /\ BackendCalls = 0

\* The returned value without the on_response applications made to it.
Unprocessed(v) == [v EXCEPT !.fs = <<>>]

\* C9: the returned text is extracted by the backend that produced the
\* response: the decoded text itself for the local backend, the first
\* choice's message content for the hosted and the managed backend, for
\* every setting of use_azure and use_local_model (managed when both).
C9_ExtractionMatchesBackend ==
    (op = "chat" /\ pc = "done" /\ outcome = "returned" /\ lastOutcome = "success") =>
        /\ (CFG.use_azure /\ CFG.use_local_model) => backendUsed = "managed"
        /\ backendUsed = "local" => Unprocessed(result) = response
        /\ backendUsed \in {"hosted", "managed"} =>
              /\ response.kind = "envelope"
              /\ Unprocessed(result) = Text(response.val)

\* The plugins whose can_handle_on_response answered true, in the order
\* they were asked.
OptedInOnResponse ==
    LET OptsIn(x) == x.e = "can_handle_on_response" /\ x.r = True
        s == SelectSeq(events, OptsIn)
    IN  [k \in 1..Len(s) |-> s[k].p]

\* The plugins asked can_handle_on_response, in the order they were asked.
AskedOnResponse ==
    LET Asked(x) == x.e = "can_handle_on_response"
        s == SelectSeq(events, Asked)
    IN  [k \in 1..Len(s) |-> s[k].p]

\* C10: when a backend response was obtained, the returned text is the
\* extracted text with on_response of exactly the plugins whose
\* can_handle_on_response is true applied to it in registration order.
C10_OnResponseChain ==
    (op = "chat" /\ pc = "done" /\ outcome = "returned" /\ lastOutcome = "success") =>
        /\ Unprocessed(result) = ExtractText(CFG, response)
        /\ result.fs = OptedInOnResponse
        /\ AskedOnResponse = CFG.plugins
        /\ \A j \in EventsOf("can_handle_on_response") :
              events[j].r = True <=>
                  (j < Len(events) /\ events[j + 1].e = "on_response"
                                   /\ events[j + 1].p = events[j].p)
        /\ Cardinality(EventsOf("on_response")) = Len(result.fs)

C10_Witness ==
    /\ op = "chat" /\ pc = "done" /\ outcome = "returned"
    /\ lastOutcome = "success" /\ Len(CFG.plugins) = 2
    /\ result = [kind |-> "text", val |-> "answer", fs |-> <<2>>]

\* C11: when the backend fails m times in a row with 502 (0 <= m <= 9) and
\* then succeeds, the dispatch has made m + 1 backend calls and slept m
\* times, 4, 8, ..., 2^(m+1) in that order, and what it returns is the text
\* of the successful response (as the plugins' on_response left it).
C11_GatewayFailuresThenSuccess ==
    (op = "chat" /\ lastOutcome = "success" /\ firstRateLimit = 0) =>
        /\ BackendCalls = attempt + 1
        /\ SleepDelays = [n \in 1..attempt |-> 2 ^ (n + 1)]
        /\ (pc = "done" /\ outcome = "returned") =>
              Unprocessed(result) = Text(response.val)

\* C12: create_embedding_with_ada retries rate limits and 502s within 10
\* attempts, lets every other status through at once, and never returns
\* normally without a vector: when the attempts are used up it fails.
C12_EmbeddingRetryPolicy ==
    op = "embed" =>
        /\ BackendCalls <= 10
        /\ lastOutcome = "other" => (pc = "done" /\ outcome = "raised_backend")
        /\ (lastOutcome \in {"rate_limit", "502"} /\ BackendCalls < 10) =>
              (pc = "retry" /\ outcome = "running")
        /\ (pc = "done" /\ outcome = "returned") => result # None

\* The texts handed to the embedding backend so far.
EmbeddingTextsSent ==
    { c.args.text_list[1] : c \in { x \in calls : x.to = "embedding_create" } }

\* C13: every text that create_embedding_with_ada passes to the embedding
\* backend has its newlines replaced by spaces: it contains no newline.
C13_RetryingEmbeddingSendsNormalizedText ==
    op = "embed" =>
        \A t \in EmbeddingTextsSent :
            /\ t = [i \in 1..Len(input.text) |->
                      IF input.text[i] = "\n" THEN " " ELSE input.text[i]]
            /\ \A i \in 1..Len(t) : t[i] # "\n"

\* C14: call_ai_function calls create_chat_completion exactly once, with
\* two turns (system, then user) and temperature 0, whatever its arguments
\* and whatever CFG.temperature is.
C14_OneDispatchAtTemperatureZero ==
    entry = "call_ai_function" =>
        /\ pc = "call_ai_function" => dispatches = 0
        /\ pc # "call_ai_function" =>
              /\ dispatches = 1
              /\ Len(request.messages) = 2
              /\ request.messages[1].role = "system"
              /\ request.messages[2].role = "user"
              /\ request.temperature = 0

C14_Witness ==
    /\ entry = "call_ai_function" /\ pc = "done" /\ outcome = "returned"
    /\ CFG.temperature = 9 /\ request.temperature = 0
    /\ dispatches = 1 /\ Len(input.args) = 2 /\ input.model = None

\* The text of one argument: a digit, or the word None.
ExpectedArgText(a) ==
    IF a.kind = "int" THEN <<Digits[a.n + 1]>> ELSE <<"N", "o", "n", "e">>

RECURSIVE ExpectedUserContent(_, _)
\* The first k arguments, each after the first preceded by ", ".
ExpectedUserContent(args, k) ==
    IF k = 0 THEN <<>>
    ELSE ExpectedUserContent(args, k - 1)
         \o (IF k > 1 THEN <<",", " ">> ELSE <<>>)
         \o ExpectedArgText(args[k])

\* C15: the user turn's content is the arguments' texts in their order,
\* joined with ", ", a None argument rendered as None; [2, None] gives
\* exactly "2, None".
C15_ArgumentsJoined ==
    (entry = "call_ai_function" /\ pc # "call_ai_function") =>
        /\ request.messages[2].content =
              ExpectedUserContent(input.args, Len(input.args))
        /\ input.args = <<IntArg(2), NoneArg>> =>
              request.messages[2].content = <<"2", ",", " ", "N", "o", "n", "e">>

C15_Witness ==
    /\ entry = "call_ai_function" /\ pc = "done"
    /\ input.args = <<IntArg(2), NoneArg>>
    /\ request.messages[2].content = <<"2", ",", " ", "N", "o", "n", "e">>

\* The entries that run the dispatcher.
DispatchEntered == entry \in {"create_chat_completion", "call_ai_function"}

\* C16 as claimed: a dispatch that has ended has made at most 10 attempts
\* and has ended in one of four ways: a return, a backend error raised, the
\* unrecoverable error raised (debug mode) or the process exited (normal
\* mode).
C16_Original ==
    (DispatchEntered /\ pc = "done") =>
        /\ BackendCalls <= 10
        /\ outcome \in {"returned", "raised_backend", "raised_runtime", "quit"}

\* C16 amended: every dispatch ends, after at most 10 attempts, in one of
\* five ways: a return, a backend error raised, an exception of a plugin
\* raised, the unrecoverable error raised (only in debug mode) or the
\* process exited (only in normal mode).
C16_DispatchTerminates ==
    DispatchEntered =>
        <>(/\ pc = "done"
           /\ BackendCalls <= 10
           /\ outcome \in {"returned", "raised_backend", "raised_plugin",
                           "raised_runtime", "quit"}
           /\ outcome = "raised_runtime" => CFG.debug_mode
           /\ outcome = "quit" => ~CFG.debug_mode)

C16_Witness ==
    /\ DispatchEntered /\ pc = "done" /\ outcome = "raised_plugin"
    /\ BackendCalls = 10 /\ lastOutcome = "success"

\* C17: when a plugin's handler produced the message that the dispatch
\* returns, that message is returned as it is: no can_handle_on_response
\* and no on_response is called, nothing is logged, no backend is called.
C17_ShortCircuitReturnsUnmodified ==
    \A j \in EventsOf("handle_chat_completion") :
        events[j].r \notin {None, Raised} =>
            /\ pc = "done" /\ outcome = "returned"
            /\ result = events[j].r
            /\ result.fs = <<>>
            /\ EventsOf("can_handle_on_response") = {}
            /\ EventsOf("on_response") = {}
            /\ EventsOf("double_check_paid") = {}
            /\ EventsOf("typewriter_log_failed") = {}
            /\ EventsOf("double_check") = {}
            /\ \A k \in 1..Len(events) :
                  events[k].e \in {"can_handle_chat_completion",
                                   "handle_chat_completion"}

C17_Witness ==
    /\ op = "chat" /\ pc = "done" /\ outcome = "returned"
    /\ Len(CFG.plugins) = 2 /\ Len(events) = 3
    /\ events[3] = CallEvent("handle_chat_completion", 2, Text("handled"))
    /\ result = Text("handled")

RECURSIVE SumSeq(_)
SumSeq(q) == IF q = <<>> THEN 0 ELSE Head(q) + SumSeq(Tail(q))

\* The position of the last event of a kind, 0 when there is none.
LastEventOf(e) ==
    IF EventsOf(e) = {} THEN 0
    ELSE CHOOSE j \in EventsOf(e) : \A k \in EventsOf(e) : k <= j

\* C18: every rate-limited attempt of a dispatch is followed by a sleep,
\* the 10th included: after a rate-limited 10th attempt the dispatch has
\* slept 10 times, 4, 8, ..., 2048 (4092 in all), and the fatal error is
\* logged after the last sleep; after a 502 on the 10th attempt there are
\* 9 sleeps and none follows the attempt.
C18_RateLimitAlwaysSleeps ==
    op = "chat" =>
        /\ lastOutcome = "rate_limit" =>
              /\ LastEventOf("sleep") > LastEventOf("backend")
              /\ events[LastEventOf("sleep")].p = 2 ^ (attempt + 1)
              /\ Len(SleepDelays) = BackendCalls
        /\ (lastOutcome = "rate_limit" /\ BackendCalls = 10) =>
              /\ SleepDelays = <<4, 8, 16, 32, 64, 128, 256, 512, 1024, 2048>>
              /\ SumSeq(SleepDelays) = 4092
              /\ pc \in {"after_loop", "done"}
              /\ pc = "done" =>
                    /\ FatalLogged
                    /\ LastEventOf("typewriter_log_failed") = LastEventOf("sleep") + 1
        /\ (lastOutcome = "502" /\ BackendCalls = 10) =>
              /\ Len(SleepDelays) = 9
              /\ LastEventOf("sleep") < LastEventOf("backend")
              /\ ~FatalLogged

C18_Witness ==
    /\ op = "chat" /\ pc = "done" /\ BackendCalls = 10
    /\ firstRateLimit = 1 /\ lastOutcome = "rate_limit"
    /\ SumSeq(SleepDelays) = 4092 /\ FatalLogged

\* The calls of plugins and backends made by the dispatcher so far.
DispatchCalls ==
    { c \in calls : c.to \in {"can_handle_chat_completion",
                              "handle_chat_completion",
                              "managed", "hosted", "local"} }

\* The call was given the conversation, model, temperature and max_tokens
\* of the request.
ReceivesRequest(c) ==
    /\ {"messages", "model", "temperature", "max_tokens"} \subseteq DOMAIN c.args
    /\ c.args.messages = request.messages
    /\ c.args.model = request.model
    /\ c.args.temperature = request.temperature
    /\ c.args.max_tokens = request.max_tokens

RECURSIVE ExpectedTranscript(_, _)
\* The first k turns, each as <|start|>role, newline, content, <|end|>,
\* newline.
ExpectedTranscript(messages, k) ==
    IF k = 0 THEN <<>>
    ELSE ExpectedTranscript(messages, k - 1)
         \o <<"<|start|>", messages[k].role, "\n">>
         \o messages[k].content
         \o <<"<|end|>", "\n">>

\* The call was given the model, the conversation rendered turn by turn in
\* its order and max_tokens, and no temperature.
ReceivesRendered(c) ==
    /\ DOMAIN c.args = {"model", "input_text", "max_new_tokens"}
    /\ c.args.model = request.model
    /\ c.args.input_text =
          ExpectedTranscript(request.messages, Len(request.messages))
    /\ c.args.max_new_tokens = request.max_tokens

\* The dispatcher assigns neither its parameters nor the configuration.
DispatchFrame ==
    [][/\ CFG' = CFG
       /\ input' = input
       /\ op = "chat" => request' = request]_vars

\* C19 as claimed: every plugin predicate and handler call and every
\* backend attempt of a dispatch is given the caller's conversation, model,
\* temperature and max_tokens, and the dispatcher changes neither the
\* request nor the configuration.
C19_Original ==
    /\ [](\A c \in DispatchCalls : ReceivesRequest(c))
    /\ [](entry = "create_chat_completion" => request = input)
    /\ DispatchFrame

\* C19 amended: every plugin predicate and handler call and every attempt
\* on the hosted or the managed backend is given the caller's conversation,
\* model, temperature and max_tokens; every attempt on the local backend is
\* given the model, the same conversation rendered in order by
\* get_message_string and max_tokens, but not the temperature; the
\* dispatcher changes neither the request nor the configuration.
C19_SameRequestEveryCall ==
    /\ [](\A c \in DispatchCalls :
            IF c.to = "local" THEN ReceivesRendered(c) ELSE ReceivesRequest(c))
    /\ [](entry = "create_chat_completion" => request = input)
    /\ DispatchFrame

C19_Witness ==
    /\ op = "chat" /\ pc = "done" /\ BackendCalls = 3
    /\ Len(CFG.plugins) = 2 /\ request.temperature # CFG.temperature
    /\ \E c \in DispatchCalls : c.to = "hosted"
    /\ \E c \in DispatchCalls : c.to = "handle_chat_completion"

====
